---- MODULE Spec2Model ----
(***************************************************************************)
(* Message resolution pipeline of telegram-search.                         *)
(*                                                                         *)
(*   Spec         processMessages (packages/core/src/services/message.ts): *)
(*                conversion, the resolver loop, the uuid-keyed merge and  *)
(*                the events it emits.                                     *)
(*   SpecMedia    createMediaResolver.stream driven by the for-await loop  *)
(*                of processMessages, while another caller may record the  *)
(*                sticker.                                                 *)
(*   SpecSticker  recordSticker / recordStickers calls running             *)
(*                concurrently against the stickers table.                 *)
(*   SpecFetch    fetchMessages (same file): authorization, the single     *)
(*                getMessages page, the tombstone filter, and the          *)
(*                conversion of what was yielded.                          *)
(*   SpecClient   pushMessages and useMessageChatMap of the client message *)
(*                store (packages/client/src/stores/useMessage.ts).        *)
(*   SpecView     the chat view: its loading of older messages (onMounted  *)
(*                and the scroll watcher) with fetchMessagesWithDatabase   *)
(*                of the message store, and sendMessage.                   *)
(*                                                                         *)
(* A JavaScript object is a function whose domain is the set of keys that  *)
(* hold a value other than undefined/null.                                 *)
(***************************************************************************)
EXTENDS Integers, Sequences, FiniteSets, TLC

\* ------------------------------------------------------------------ bounds
\* longest batch of native messages handed to processMessages
MaxBatch == 2
\* longest result a resolver returns (run) or yields (stream)
MaxResultLen == 2
\* number of resolvers in the registry
NumResolvers == 2
\* longest batch handed to the media resolver
MaxMediaBatch == 2
\* most attachments of one batch, over all its messages
MaxAttachments == 2
\* number of recordSticker calls
NumCalls == 2
\* longest page getMessages returns
MaxPage == 3
\* most messages handed to pushMessages, over all calls
MaxPushed == 3
\* number of fetchMessagesWithDatabase calls
MaxLoads == 2
\* most messages the chat of the view holds
MaxChatLen == 2
\* most 'message:send' events of one behaviour of the view
MaxSends == 1

\* ------------------------------------------------------------- pure helpers
Max(S) == CHOOSE x \in S : \A y \in S : y <= x

SeqsUpTo(S, n) == UNION {[1..k -> S] : k \in 0..n}

Restrict(f, D) == [k \in D |-> f[k]]

\* The object with the keys of f and of g, and f's value where both have one
\* ({ ...g, ...f }).
Assign(f, g) ==
  [k \in DOMAIN f \cup DOMAIN g |-> IF k \in DOMAIN f THEN f[k] ELSE g[k]]

\* An object without keys.
Empty == [k \in {} |-> k]

\* Fields of a CoreMessage that hold arrays.
ArrayFields == {"media"}

\* defu(base, defaults): the result starts as a copy of defaults; every key
\* of base with a value other than undefined/null is then written over it,
\* except that two arrays are concatenated, base's elements first.
defu(base, defaults) ==
  [k \in DOMAIN base \cup DOMAIN defaults |->
     IF k \in DOMAIN base
       THEN IF k \in DOMAIN defaults /\ k \in ArrayFields
              THEN base[k] \o defaults[k]
              ELSE base[k]
       ELSE defaults[k]]

\* new Map(result.map(m => [m.uuid, m])): the last entry of a uuid wins.
HasUuid(result, u) == \E j \in 1..Len(result) : result[j].uuid = u

resultByUuid(result, u) ==
  result[Max({j \in 1..Len(result) : result[j].uuid = u})]

\* A merge that ignores uuids and appends the result to the batch.
MergeAppend(batch, result) == batch \o result

\* emitMessages.map(m => resolved ? defu(m, resolved) : m)
MergeResult(batch, result) ==
  [k \in 1..Len(batch) |->
     IF HasUuid(result, batch[k].uuid)
       THEN defu(batch[k], resultByUuid(result, batch[k].uuid))
       ELSE batch[k]]

\* ------------------------------------------------------------------ inputs
\* A native message either fails conversion or converts; content and media
\* are optional.  Values are tagged with their origin: 0 is the conversion,
\* i > 0 is the i-th resolver of the registry.
NativeMessages ==
  {[ok |-> FALSE], [ok |-> TRUE], [ok |-> TRUE, content |-> 0],
   [ok |-> TRUE, media |-> <<0>>], [ok |-> TRUE, content |-> 0, media |-> <<0>>]}

NativeBatches == SeqsUpTo(NativeMessages, MaxBatch) \ {<<>>}

\* convertToCoreMessage(message).orUndefined(); the uuid assigned to the
\* message at position u of the batch is u.
convertToCoreMessage(native, u) ==
  IF native.ok
    THEN <<Assign([uuid |-> u], Restrict(native, DOMAIN native \ {"ok"}))>>
    ELSE <<>>

RECURSIVE ConvertFrom(_, _)
ConvertFrom(natives, k) ==
  IF k > Len(natives) THEN <<>>
  ELSE convertToCoreMessage(natives[k], k) \o ConvertFrom(natives, k + 1)

\* messages.map(convert).filter(message => message != null)
ConvertAll(natives) == ConvertFrom(natives, 1)

\* What resolver i may hand back for one message: any uuid, of the batch or
\* not, with content and media each left undefined or set.
ResultEntries(i) ==
  UNION {{[uuid |-> u], [uuid |-> u, content |-> i], [uuid |-> u, media |-> <<i>>],
          [uuid |-> u, content |-> i, media |-> <<i>>]} : u \in 1..(MaxBatch + 1)}

Results(i) == SeqsUpTo(ResultEntries(i), MaxResultLen)

Modes == {"run", "stream"}

\* ---------------------------------------------------------------- variables
VARIABLES
  messages,      \* processMessages' argument
  registry,      \* resolvers.registry: the mode of each resolver, in order
  pc,            \* position of processMessages
  coreMessages,  \* the converted batch
  emitMessages,  \* the working batch
  idx,           \* the resolver the loop is at (0 before the first)
  result,        \* the result array of the resolver that is running
  lastEvent,     \* the event emitted last
  emitted,       \* how many events each topic has carried
  inputs,        \* history: the batch each started resolver was handed
  outputs,       \* history: the working batch after each finished resolver
  failed,        \* history: resolvers whose try block ended in the catch
  lastMerge,     \* history: input, result and output of the latest merge
  produced,      \* history: the uuids of the messages streams have produced
  aborted        \* 'message:fetch:abort' has been received for this session

\* createMediaResolver.stream under the for-await loop of processMessages
VARIABLES
  mIn,           \* opts.messages
  stickers,      \* rows of the stickers table, in insertion order
  mpc,           \* position of the stream: "next", "fan", "caught", "done"
  mpos,          \* index of the message the stream is at (0 before the first)
  fetched,       \* the promise of each attachment of the current message:
                 \* pending, rejected, or resolved with the attachment
  mResult,       \* the result array: every message yielded, pushed, emitted
  mEmitted,      \* number of 'message:data' events emitted for the stream
  outcome,       \* history: what happened to each attachment, by <<message, k>>
  writes,        \* writeFile calls started: [path, by]
  found          \* history: the attachments one of whose lookups ran while
                 \* the table held a row for the file id

\* recordSticker calls
VARIABLES
  calls,         \* per call: pc, argument, whether the lookup found a row
  finished,      \* history: per call, the calls that had returned when it began
  insertedBy     \* history: the call that inserted each row, row by row

\* fetchMessages and the conversion of what it yielded
VARIABLES
  fAuth,         \* what isUserAuthorized() does: "yes", "no" or "throws"
  fResponse,     \* what getMessages does: [throws] or [page]
  fpc,           \* position of fetchMessages
  fpos,          \* number of messages of the page the loop has passed
  fRequested,    \* getMessages has been called
  fYielded,      \* history: the messages yielded, in order
  fReturn,       \* how the generator ended: return value or exception
  fConverted     \* lines 56-58 applied to the yielded messages

\* the client's message store
VARIABLES
  messagesByChat,  \* chatId -> (key -> message): the entries of each chat's Map
  pushed           \* history: every message handed to pushMessages, in order

\* the chat view and fetchMessagesWithDatabase of the message store
VARIABLES
  debugMode,          \* useSettingsStore().messageDebugMode
  messageInput,       \* the text of the input box
  y,                  \* scroll position of the message list
  isLoadingMessages,  \* the view's flag
  viewPc,             \* position of the view: "unmounted", "idle", or an
                      \* await of onMounted or of the scroll watcher
  loads,              \* the fetchMessagesWithDatabase calls made, in order:
                      \* pagination, caller, state, the database's answer
  sent                \* history: the events handed to sendEvent, in order

viewVars == <<debugMode, messageInput, y, isLoadingMessages, viewPc, loads, sent>>

fetchVars == <<fAuth, fResponse, fpc, fpos, fRequested, fYielded, fReturn, fConverted>>

clientVars == <<messagesByChat, pushed>>

outerVars == <<fetchVars, clientVars, viewVars>>

pipeVars == <<messages, registry, pc, coreMessages, emitMessages, idx, result,
              lastEvent, emitted, inputs, outputs, failed, lastMerge, produced,
              aborted>>

mediaVars == <<mIn, mpc, mpos, fetched, mResult, mEmitted, outcome, writes, found>>

stickerVars == <<calls, finished, insertedBy>>

vars == <<pipeVars, mediaVars, stickers, stickerVars, fetchVars, clientVars, viewVars>>

NoMerge == [done |-> FALSE]

Topics == {"message:data", "storage:record:messages"}

NoEvent == [topic |-> "none", messages |-> <<>>]

InitPipe ==
  /\ messages \in NativeBatches
  /\ registry \in [1..NumResolvers -> Modes]
  /\ pc = "convert"
  /\ coreMessages = <<>>
  /\ emitMessages = <<>>
  /\ idx = 0
  /\ result = <<>>
  /\ lastEvent = NoEvent
  /\ emitted = [t \in Topics |-> 0]
  /\ inputs = <<>>
  /\ outputs = <<>>
  /\ failed = {}
  /\ lastMerge = NoMerge
  /\ produced = {}
  /\ aborted = FALSE

IdlePipe ==
  /\ messages = <<>>
  /\ registry = <<>>
  /\ pc = "idle"
  /\ coreMessages = <<>>
  /\ emitMessages = <<>>
  /\ idx = 0
  /\ result = <<>>
  /\ lastEvent = NoEvent
  /\ emitted = [t \in Topics |-> 0]
  /\ inputs = <<>>
  /\ outputs = <<>>
  /\ failed = {}
  /\ lastMerge = NoMerge
  /\ produced = {}
  /\ aborted = FALSE

\* emitter.emit(topic, { messages })
Emit(topic, msgs) ==
  /\ lastEvent' = [topic |-> topic, messages |-> msgs]
  /\ emitted' = [emitted EXCEPT ![topic] = @ + 1]

\* ------------------------------------------------------ processMessages
\* Lines 56-68: convert, drop the failures, emit the batch, start the loop.
Convert ==
  /\ pc = "convert"
  /\ coreMessages' = ConvertAll(messages)
  /\ emitMessages' = ConvertAll(messages)
  /\ Emit("message:data", ConvertAll(messages))
  /\ pc' = "loop"
  /\ UNCHANGED <<messages, registry, idx, result, inputs, outputs, failed,
                 lastMerge, produced, aborted>>
  /\ UNCHANGED <<mediaVars, stickers, stickerVars, outerVars>>

\* The converted batch, without what earlier resolvers merged into it.
ResolverInputStale == coreMessages

\* { messages: emitMessages }: what the next resolver is called with.
ResolverInput == emitMessages

\* Lines 69-79: the loop takes the next resolver and calls run or stream.
\* Nothing here looks at a task id or an abort signal.
NextResolver ==
  /\ pc = "loop"
  /\ idx < NumResolvers
  /\ idx' = idx + 1
  /\ result' = <<>>
  /\ inputs' = Append(inputs, ResolverInput)
  /\ pc' = registry[idx + 1]
  /\ lastMerge' = NoMerge
  /\ UNCHANGED <<messages, registry, coreMessages, emitMessages, lastEvent,
                 emitted, outputs, failed, produced, aborted>>
  /\ UNCHANGED <<mediaVars, stickers, stickerVars, outerVars>>

\* A merge that takes the resolver's result as the new working batch.
MergedReplace(batch, res) == IF Len(res) > 0 THEN res ELSE batch

\* Lines 85-101: the merge, skipped for an empty result.
Merged(batch, res) == IF Len(res) > 0 THEN MergeResult(batch, res) ELSE batch

\* A catch block that keeps what the resolver had produced so far.
CaughtMergesPartial(batch, partial) == Merged(batch, partial)

\* Lines 103-105: the catch block logs; the working batch is not assigned.
Caught(batch, partial) == batch

Finish(res, out, threw) ==
  /\ emitMessages' = out
  /\ outputs' = Append(outputs, out)
  /\ failed' = IF threw THEN failed \cup {idx} ELSE failed
  /\ lastMerge' = [done |-> TRUE, resolver |-> idx, input |-> emitMessages,
                   result |-> res, output |-> out, threw |-> threw]
  /\ result' = <<>>
  /\ pc' = "loop"

\* Line 76: run resolves to Ok(result); unwrap returns it; lines 85-101 merge.
RunReturns ==
  /\ pc = "run"
  /\ \E r \in Results(idx) : Finish(r, Merged(emitMessages, r), FALSE)
  /\ UNCHANGED <<messages, registry, coreMessages, idx, lastEvent, emitted,
                 inputs, produced, aborted>>
  /\ UNCHANGED <<mediaVars, stickers, stickerVars, outerVars>>

\* Line 76: run rejects, or resolves to an Err whose unwrap throws.
RunFails ==
  /\ pc = "run"
  /\ Finish(<<>>, Caught(emitMessages, result), TRUE)
  /\ UNCHANGED <<messages, registry, coreMessages, idx, lastEvent, emitted,
                 inputs, produced, aborted>>
  /\ UNCHANGED <<mediaVars, stickers, stickerVars, outerVars>>

\* An eager event that carries no message.
YieldedNothing(message) == <<>>

\* { messages: [message] }: the payload of line 81.
Yielded(message) == <<message>>

\* Lines 79-82: the stream yields one message; it is pushed and emitted.
StreamYields ==
  /\ pc = "stream"
  /\ Len(result) < MaxResultLen
  /\ \E m \in ResultEntries(idx) :
       /\ result' = Append(result, m)
       /\ Emit("message:data", Yielded(m))
       /\ produced' = produced \cup {m.uuid}
  /\ UNCHANGED <<messages, registry, pc, coreMessages, emitMessages, idx, inputs,
                 outputs, failed, lastMerge, aborted>>
  /\ UNCHANGED <<mediaVars, stickers, stickerVars, outerVars>>

\* Line 79: the stream is exhausted; lines 85-101 merge what was pushed.
StreamEnds ==
  /\ pc = "stream"
  /\ Finish(result, Merged(emitMessages, result), FALSE)
  /\ UNCHANGED <<messages, registry, coreMessages, idx, lastEvent, emitted,
                 inputs, produced, aborted>>
  /\ UNCHANGED <<mediaVars, stickers, stickerVars, outerVars>>

\* Line 79: the stream throws, at its start or after some messages.
StreamThrows ==
  /\ pc = "stream"
  /\ Finish(result, Caught(emitMessages, result), TRUE)
  /\ UNCHANGED <<messages, registry, coreMessages, idx, lastEvent, emitted,
                 inputs, produced, aborted>>
  /\ UNCHANGED <<mediaVars, stickers, stickerVars, outerVars>>

\* The batch as converted, without any resolver's contribution.
RecordedBatchConverted == coreMessages

\* { messages: emitMessages }: the payload of line 108.
RecordedBatch == emitMessages

\* Line 108: after the loop the final batch is emitted for persistence.
Record ==
  /\ pc = "loop"
  /\ idx = NumResolvers
  /\ Emit("storage:record:messages", RecordedBatch)
  /\ pc' = "done"
  /\ UNCHANGED <<messages, registry, coreMessages, emitMessages, idx, result,
                 inputs, outputs, failed, lastMerge, produced, aborted>>
  /\ UNCHANGED <<mediaVars, stickers, stickerVars, outerVars>>

\* 'message:fetch:abort' arrives for the session while it is being processed.
Abort ==
  /\ pc # "done"
  /\ ~aborted
  /\ aborted' = TRUE
  /\ UNCHANGED <<messages, registry, pc, coreMessages, emitMessages, idx, result,
                 lastEvent, emitted, inputs, outputs, failed, lastMerge, produced>>
  /\ UNCHANGED <<mediaVars, stickers, stickerVars, outerVars>>

\* ------------------------------------------------------- stickers table
FileIds == {"f1", "f2"}

\* The values of an insert (lines 43-53): Buffer.from(byte) or null, the
\* path, and emoji || ''.  A null column is a key the row does not have; the
\* empty string is the empty sequence.
StickerRow(sticker) ==
  Assign([platform |-> "telegram", file_id |-> sticker.sticker_id,
          description |-> <<>>, name |-> <<>>, label |-> <<>>,
          emoji |-> IF "emoji" \in DOMAIN sticker THEN sticker.emoji ELSE <<>>],
    Assign(IF "byte" \in DOMAIN sticker
             THEN [sticker_bytes |-> <<"Buffer", sticker.byte>>] ELSE Empty,
           IF "path" \in DOMAIN sticker
             THEN [sticker_path |-> sticker.path] ELSE Empty))

\* select().from(stickersTable).where(eq(file_id, fileId)).limit(1)
SelectByFileId(table, fileId) ==
  LET hits == {k \in 1..Len(table) : table[k].file_id = fileId}
  IN IF hits = {} THEN <<>> ELSE <<table[CHOOSE k \in hits : \A j \in hits : k <= j]>>

\* findStickerByFileId: undefined for no row, else Ok(sticker[0]).  The
\* result is <<>> for undefined and <<row>> for Ok(row).
findStickerByFileId(table, fileId) == SelectByFileId(table, fileId)

\* ------------------------------------------------- createMediaResolver
MediaShapes ==
  {[type |-> "photo"], [type |-> "photo", base64 |-> "b64"],
   [type |-> "sticker"], [type |-> "sticker", base64 |-> "b64"]}

\* A message has no media field, or a media array of up to n attachments.
MessageShapes(n) ==
  {[has |-> FALSE]} \cup
  {[has |-> TRUE, media |-> s] : s \in SeqsUpTo(MediaShapes, n)}

AttachmentsOf(shape) == IF shape.has THEN Len(shape.media) ELSE 0

\* The batches of n messages with at most budget attachments in all.
RECURSIVE ShapeBatches(_, _)
ShapeBatches(n, budget) ==
  IF n = 0 THEN {<<>>}
  ELSE UNION {{<<shape>> \o rest : rest \in ShapeBatches(n - 1, budget - AttachmentsOf(shape))}
              : shape \in MessageShapes(budget)}

\* An attachment as conversion leaves it: no bytes, no path.
MkMedia(u, shape) ==
  Assign(shape,
         [messageUUID |-> u,
          apiMedia |-> IF shape.type = "sticker"
                         THEN [document |-> [id |-> "f1"]]
                         ELSE [photo |-> [id |-> "ph"]]])

MkMessage(u, shape) ==
  Assign([uuid |-> u, chatId |-> "chat", platformMessageId |-> u],
         IF shape.has
           THEN [media |-> [k \in 1..Len(shape.media) |-> MkMedia(u, shape.media[k])]]
           ELSE Empty)

MediaBatches(max) ==
  UNION {{[u \in 1..n |-> MkMessage(u, shapes[u])] : shapes \in ShapeBatches(n, MaxAttachments)}
         : n \in 1..max}

CachedStickers ==
  {<<>>, <<StickerRow([sticker_id |-> "f1", byte |-> <<"byte", "cached">>])>>,
   <<StickerRow([sticker_id |-> "f1"])>>}

InitMedia ==
  /\ mIn \in MediaBatches(MaxMediaBatch)
  /\ stickers \in CachedStickers
  /\ mpc = "next"
  /\ mpos = 0
  /\ fetched = <<>>
  /\ mResult = <<>>
  /\ mEmitted = 0
  /\ outcome = <<>>
  /\ writes = {}
  /\ found = {}

IdleMedia ==
  /\ mIn = <<>>
  /\ mpc = "idle"
  /\ mpos = 0
  /\ fetched = <<>>
  /\ mResult = <<>>
  /\ mEmitted = 0
  /\ outcome = <<>>
  /\ writes = {}
  /\ found = {}

\* !message.media || message.media.length === 0
NoMedia(message) ==
  IF "media" \in DOMAIN message THEN Len(message.media) = 0 ELSE TRUE

\* Lines 422 and 458: join(userMediaPath, chatId) and then
\* join(userMediaPath, message.platformMessageId).
MediaPath(message, media) == <<"user", message.chatId, message.platformMessageId>>

\* A lookup that never finds a row.
StickerNeverHit(table, media) == FALSE

\* Lines 426-433: the sticker branch returns when the lookup has a row.
StickerHit(table, media) ==
  media.type = "sticker"
  /\ findStickerByFileId(table, media.apiMedia.document.id) # <<>>

\* { ...media, byte: sticker.unwrap().sticker_bytes ?? undefined }
FromSticker(table, media) ==
  LET row == findStickerByFileId(table, media.apiMedia.document.id)[1]
  IN Assign(IF "sticker_bytes" \in DOMAIN row THEN [byte |-> row.sticker_bytes] ELSE Empty,
            Restrict(media, DOMAIN media \ {"byte"}))

\* Lines 465-473: the attachment returned after downloadMedia.  The path is
\* set whether or not a Buffer came back.
FromDownload(message, media, isBuffer) ==
  Assign([apiMedia |-> media.apiMedia, type |-> media.type,
          messageUUID |-> media.messageUUID, path |-> MediaPath(message, media)],
         IF isBuffer THEN [byte |-> <<"Buffer", <<"byte", "downloaded">>>>] ELSE Empty)

\* Lines 79-81 of processMessages: push the yielded message and emit it.
YieldMessage(message) ==
  /\ mResult' = Append(mResult, message)
  /\ mEmitted' = mEmitted + 1

\* The sticker branch stands three times in the callback (lines 426-434,
\* 436-444 and 446-454): three lookups, each behind its own await.
Lookups == 3

\* The promise of a callback that has not returned, and the number of
\* lookups it has made.
PendingPromise == [state |-> "pending", lookups |-> 0]

RejectedPromise == [state |-> "rejected"]

Resolved(media) == [state |-> "resolved", value |-> media]

Settle(k, value, what) ==
  /\ fetched' = [fetched EXCEPT ![k] = value]
  /\ outcome' = Assign([p \in {<<mpos, k>>} |-> what], outcome)

\* Lines 412-416: a message without attachments is yielded as it is.
MediaPassThrough ==
  /\ mpc = "next"
  /\ mpos < Len(mIn)
  /\ NoMedia(mIn[mpos + 1])
  /\ mpos' = mpos + 1
  /\ YieldMessage(mIn[mpos + 1])
  /\ UNCHANGED <<mIn, mpc, fetched, outcome, writes, found>>
  /\ UNCHANGED <<pipeVars, stickers, stickerVars, outerVars>>

\* Lines 418-419: Promise.all starts one callback per attachment.
MediaFanOut ==
  /\ mpc = "next"
  /\ mpos < Len(mIn)
  /\ ~NoMedia(mIn[mpos + 1])
  /\ mpos' = mpos + 1
  /\ fetched' = [k \in 1..Len(mIn[mpos + 1].media) |-> PendingPromise]
  /\ mpc' = "fan"
  /\ UNCHANGED <<mIn, mResult, mEmitted, outcome, writes, found>>
  /\ UNCHANGED <<pipeVars, stickers, stickerVars, outerVars>>

\* A callback of Promise.all is running: before or after the rejection that
\* ended the stream, a callback that has started runs to its end.
Pending(k) ==
  /\ mpc \in {"fan", "caught"}
  /\ k \in DOMAIN fetched
  /\ fetched[k].state = "pending"

\* Lines 426, 436 and 446: the callback of a sticker is at one of its
\* lookups.
AtLookup(k) ==
  /\ Pending(k)
  /\ mIn[mpos].media[k].type = "sticker"
  /\ fetched[k].lookups < Lookups

\* Line 456: the callback has passed the sticker branches and awaits
\* downloadMedia; it reads the table no more.
AtDownload(k) ==
  /\ Pending(k)
  /\ IF mIn[mpos].media[k].type = "sticker" THEN fetched[k].lookups = Lookups ELSE TRUE

\* The table holds a row for the file id of the sticker.
RowExists(table, media) ==
  \E r \in 1..Len(table) : table[r].file_id = media.apiMedia.document.id

\* The lookup of callback k runs on the table as it is now.
LookedUp(k) ==
  found' = IF RowExists(stickers, mIn[mpos].media[k])
             THEN found \cup {<<mpos, k>>} ELSE found

\* Lines 427-433, 437-443 and 447-453: a lookup finds a row and the
\* callback returns it, without a download.
ResolveFromSticker ==
  /\ \E k \in DOMAIN fetched :
       /\ AtLookup(k)
       /\ StickerHit(stickers, mIn[mpos].media[k])
       /\ Settle(k, Resolved(FromSticker(stickers, mIn[mpos].media[k])), "hit")
       /\ LookedUp(k)
  /\ UNCHANGED <<mIn, mpc, mpos, mResult, mEmitted, writes>>
  /\ UNCHANGED <<pipeVars, stickers, stickerVars, outerVars>>

\* Lines 427-428, 437-438 and 447-448: a lookup finds no row and the
\* callback goes on, to the next lookup or to the download.
LookupMisses ==
  /\ \E k \in DOMAIN fetched :
       /\ AtLookup(k)
       /\ ~StickerHit(stickers, mIn[mpos].media[k])
       /\ fetched' = [fetched EXCEPT ![k].lookups = @ + 1]
       /\ LookedUp(k)
  /\ UNCHANGED <<mIn, mpc, mpos, mResult, mEmitted, outcome, writes>>
  /\ UNCHANGED <<pipeVars, stickers, stickerVars, outerVars>>

\* Lines 456-473: downloadMedia returns a Buffer, whatever the table holds
\* by now; writeFile is started and not awaited.
DownloadReturnsBuffer ==
  /\ \E k \in DOMAIN fetched :
       /\ AtDownload(k)
       /\ Settle(k, Resolved(FromDownload(mIn[mpos], mIn[mpos].media[k], TRUE)), "buffer")
       /\ writes' = writes \cup
            {[path |-> MediaPath(mIn[mpos], mIn[mpos].media[k]), by |-> <<mpos, k>>]}
  /\ UNCHANGED <<mIn, mpc, mpos, mResult, mEmitted, found>>
  /\ UNCHANGED <<pipeVars, stickers, stickerVars, outerVars>>

\* Lines 456-473: downloadMedia returns something that is no Buffer.
DownloadReturnsNothing ==
  /\ \E k \in DOMAIN fetched :
       /\ AtDownload(k)
       /\ Settle(k, Resolved(FromDownload(mIn[mpos], mIn[mpos].media[k], FALSE)), "none")
  /\ UNCHANGED <<mIn, mpc, mpos, mResult, mEmitted, writes, found>>
  /\ UNCHANGED <<pipeVars, stickers, stickerVars, outerVars>>

\* Line 456: downloadMedia throws.  The callback's promise rejects, so
\* Promise.all rejects, the generator throws out of line 418 and the
\* for-await of processMessages ends in its catch block (lines 103-105).
DownloadThrows ==
  /\ \E k \in DOMAIN fetched :
       /\ AtDownload(k)
       /\ Settle(k, RejectedPromise, "throw")
  /\ mpc' = "caught"
  /\ UNCHANGED <<mIn, mpos, mResult, mEmitted, writes, found>>
  /\ UNCHANGED <<pipeVars, stickers, stickerVars, outerVars>>

\* Lines 418 and 477-480: every callback has resolved; the message is
\* yielded with the fetched attachments.
MediaFanIn ==
  /\ mpc = "fan"
  /\ \A k \in DOMAIN fetched : fetched[k].state = "resolved"
  /\ YieldMessage([mIn[mpos] EXCEPT !.media = [k \in DOMAIN fetched |-> fetched[k].value]])
  /\ mpc' = "next"
  /\ UNCHANGED <<mIn, mpos, fetched, outcome, writes, found>>
  /\ UNCHANGED <<pipeVars, stickers, stickerVars, outerVars>>

\* Line 412: the loop is over; the stream ends.
MediaStreamEnds ==
  /\ mpc = "next"
  /\ mpos = Len(mIn)
  /\ mpc' = "done"
  /\ UNCHANGED <<mIn, mpos, fetched, mResult, mEmitted, outcome, writes, found>>
  /\ UNCHANGED <<pipeVars, stickers, stickerVars, outerVars>>

\* ------------------------------------------------------- recordSticker
\* What call c may be given: a file id alone, with bytes, or with bytes,
\* path and emoji.  The values of call c are tagged with c, so that the
\* values of two calls differ.
StickerArgs(c) ==
  UNION {{[sticker_id |-> f],
          [sticker_id |-> f, byte |-> <<"byte", c>>],
          [sticker_id |-> f, byte |-> <<"byte", c>>, path |-> <<"path", c>>,
           emoji |-> <<"emoji", c>>]} : f \in FileIds}

Calls == 1..NumCalls

InitSticker ==
  /\ calls = [c \in Calls |-> [pc |-> "idle"]]
  /\ finished = [c \in Calls |-> {}]
  /\ insertedBy = <<>>

IdleSticker ==
  /\ calls = <<>>
  /\ finished = <<>>
  /\ insertedBy = <<>>

\* While the resolver runs, another caller may be in recordSticker for the
\* file id of the stickers, about to look the id up (line 39).
LateSticker == [sticker_id |-> "f1", byte |-> <<"byte", "late">>]

\* The rows the table starts with were inserted by calls that are over
\* (call 0); there is no other caller, or there is one.
InitMediaWriter ==
  /\ calls \in {<<>>, <<[pc |-> "find", sticker |-> LateSticker]>>}
  /\ finished = [c \in DOMAIN calls |-> {}]
  /\ insertedBy = [r \in 1..Len(stickers) |-> 0]

Returned == {c \in DOMAIN calls : calls[c].pc = "done"}

\* An insert that does not depend on what the lookup returned.
InsertAlways(existingSticker) == TRUE

\* Line 40: existingSticker == null
ShouldInsert(existingSticker) == existingSticker = <<>>

\* Line 37: recordSticker is called; recordStickers (line 59) starts one
\* call per sticker before any of them has looked the file id up.
CallRecordSticker ==
  /\ \E c \in Calls : \E sticker \in StickerArgs(c) :
       /\ calls[c].pc = "idle"
       /\ calls' = [calls EXCEPT ![c] = [pc |-> "find", sticker |-> sticker]]
       /\ finished' = [finished EXCEPT ![c] = Returned]
  /\ UNCHANGED <<outerVars, pipeVars, mediaVars, stickers, insertedBy>>

\* Lines 39-40: the select has run; the call returns if a row exists.
FindExisting ==
  /\ \E c \in DOMAIN calls :
       /\ calls[c].pc = "find"
       /\ calls' = [calls EXCEPT ![c].pc =
            IF ShouldInsert(findStickerByFileId(stickers, calls[c].sticker.sticker_id))
              THEN "insert" ELSE "done"]
  /\ UNCHANGED <<outerVars, pipeVars, mediaVars, stickers, finished, insertedBy>>

\* Lines 41-55: the insert runs, whatever the table holds by now.
InsertSticker ==
  /\ \E c \in DOMAIN calls :
       /\ calls[c].pc = "insert"
       /\ stickers' = Append(stickers, StickerRow(calls[c].sticker))
       /\ insertedBy' = Append(insertedBy, c)
       /\ calls' = [calls EXCEPT ![c].pc = "done"]
  /\ UNCHANGED <<outerVars, pipeVars, mediaVars, finished>>

\* ------------------------------------------------------- fetchMessages
\* A message of a page: a tombstone (Api.MessageEmpty), a message that
\* converts, or a message that fails conversion.  The id is the position in
\* the platform's order.
PageKinds ==
  {[className |-> "MessageEmpty", ok |-> FALSE],
   [className |-> "Message", ok |-> TRUE],
   [className |-> "Message", ok |-> FALSE]}

Pages(max) ==
  UNION {{[i \in 1..n |-> Assign([id |-> i], kinds[i])] : kinds \in [1..n -> PageKinds]}
         : n \in 0..max}

\* What getMessages does: it throws, or it returns a page.
Responses(max) ==
  {[throws |-> TRUE]} \cup {[throws |-> FALSE, page |-> page] : page \in Pages(max)}

Running == [kind |-> "running"]

\* return, or the end of the function body (lines 117 and 158)
ReturnedUndefined == [kind |-> "undefined"]

\* return Err(...) (lines 143 and 156)
ReturnedErr(error) == [kind |-> "Err", error |-> error]

\* an exception that leaves the generator
Thrown == [kind |-> "thrown"]

InitFetch ==
  /\ fAuth \in {"yes", "no", "throws"}
  /\ fResponse \in Responses(MaxPage)
  /\ fpc = "start"
  /\ fpos = 0
  /\ fRequested = FALSE
  /\ fYielded = <<>>
  /\ fReturn = Running
  /\ fConverted = <<>>

IdleFetch ==
  /\ fAuth = "yes"
  /\ fResponse = [throws |-> TRUE]
  /\ fpc = "idle"
  /\ fpos = 0
  /\ fRequested = FALSE
  /\ fYielded = <<>>
  /\ fReturn = Running
  /\ fConverted = <<>>

\* Lines 115-118: the session is not authorized; the error is logged and the
\* generator returns.
FetchNotAuthorized ==
  /\ fpc = "start"
  /\ fAuth = "no"
  /\ fReturn' = ReturnedUndefined
  /\ fpc' = "done"
  /\ UNCHANGED <<fAuth, fResponse, fpos, fRequested, fYielded, fConverted>>
  /\ UNCHANGED <<pipeVars, mediaVars, stickers, stickerVars, clientVars, viewVars>>

\* Line 115: isUserAuthorized() rejects; the await is outside the try.
FetchAuthThrows ==
  /\ fpc = "start"
  /\ fAuth = "throws"
  /\ fReturn' = Thrown
  /\ fpc' = "done"
  /\ UNCHANGED <<fAuth, fResponse, fpos, fRequested, fYielded, fConverted>>
  /\ UNCHANGED <<pipeVars, mediaVars, stickers, stickerVars, clientVars, viewVars>>

\* Lines 115-133: the session is authorized; getMessages is called.
FetchAuthorized ==
  /\ fpc = "start"
  /\ fAuth = "yes"
  /\ fRequested' = TRUE
  /\ fpc' = "request"
  /\ UNCHANGED <<fAuth, fResponse, fpos, fYielded, fReturn, fConverted>>
  /\ UNCHANGED <<pipeVars, mediaVars, stickers, stickerVars, clientVars, viewVars>>

\* Lines 155-157: getMessages throws; the catch returns Err(withError(...)).
GetMessagesThrows ==
  /\ fpc = "request"
  /\ fResponse.throws
  /\ fReturn' = ReturnedErr("Fetch messages failed")
  /\ fpc' = "done"
  /\ UNCHANGED <<fAuth, fResponse, fpos, fRequested, fYielded, fConverted>>
  /\ UNCHANGED <<pipeVars, mediaVars, stickers, stickerVars, clientVars, viewVars>>

\* Lines 141-144: the page is empty; the generator returns an Err.
GetMessagesEmpty ==
  /\ fpc = "request"
  /\ ~fResponse.throws
  /\ Len(fResponse.page) = 0
  /\ fReturn' = ReturnedErr("Get messages failed or returned empty data")
  /\ fpc' = "done"
  /\ UNCHANGED <<fAuth, fResponse, fpos, fRequested, fYielded, fConverted>>
  /\ UNCHANGED <<pipeVars, mediaVars, stickers, stickerVars, clientVars, viewVars>>

\* Line 146: the page has messages; the loop starts.
GetMessagesPage ==
  /\ fpc = "request"
  /\ ~fResponse.throws
  /\ Len(fResponse.page) > 0
  /\ fpc' = "page"
  /\ UNCHANGED <<fAuth, fResponse, fpos, fRequested, fYielded, fReturn, fConverted>>
  /\ UNCHANGED <<pipeVars, mediaVars, stickers, stickerVars, clientVars, viewVars>>

\* A test that takes no message for a tombstone.
NeverTombstone(message) == FALSE

\* message instanceof Api.MessageEmpty
IsTombstone(message) == message.className = "MessageEmpty"

\* Lines 148-150: a tombstone is skipped.
FetchSkipEmpty ==
  /\ fpc = "page"
  /\ fpos < Len(fResponse.page)
  /\ IsTombstone(fResponse.page[fpos + 1])
  /\ fpos' = fpos + 1
  /\ UNCHANGED <<fAuth, fResponse, fpc, fRequested, fYielded, fReturn, fConverted>>
  /\ UNCHANGED <<pipeVars, mediaVars, stickers, stickerVars, clientVars, viewVars>>

\* Line 152: any other message is yielded.
FetchYield ==
  /\ fpc = "page"
  /\ fpos < Len(fResponse.page)
  /\ ~IsTombstone(fResponse.page[fpos + 1])
  /\ fpos' = fpos + 1
  /\ fYielded' = Append(fYielded, fResponse.page[fpos + 1])
  /\ UNCHANGED <<fAuth, fResponse, fpc, fRequested, fReturn, fConverted>>
  /\ UNCHANGED <<pipeVars, mediaVars, stickers, stickerVars, clientVars, viewVars>>

\* Lines 153-158: the loop is over; the generator ends.
FetchEnd ==
  /\ fpc = "page"
  /\ fpos = Len(fResponse.page)
  /\ fReturn' = ReturnedUndefined
  /\ fpc' = "done"
  /\ UNCHANGED <<fAuth, fResponse, fpos, fRequested, fYielded, fConverted>>
  /\ UNCHANGED <<pipeVars, mediaVars, stickers, stickerVars, clientVars, viewVars>>

\* Lines 56-58 of processMessages, called with the messages the generator
\* yielded.
ConvertFetched ==
  /\ fpc = "done"
  /\ fConverted' = ConvertAll(fYielded)
  /\ fpc' = "converted"
  /\ UNCHANGED <<fAuth, fResponse, fpos, fRequested, fYielded, fReturn>>
  /\ UNCHANGED <<pipeVars, mediaVars, stickers, stickerVars, clientVars, viewVars>>

\* ------------------------------------------------- client message store
ChatIds == {"c1", "c2"}

\* What a pushed message may carry besides its identifiers: text alone, or
\* an attachment with bytes and a base64 copy.
Payloads ==
  {[content |-> "a"],
   [content |-> "b",
    media |-> <<[type |-> "photo", byte |-> <<"Buffer", "x">>, base64 |-> "b64"]>>]}

\* The messages handed to pushMessages: uuid and platformMessageId vary
\* independently, as the store receives both and reads one of them.
PushedMessages ==
  UNION {{Assign([chatId |-> c, uuid |-> u, platformMessageId |-> p], payload) :
            payload \in Payloads} : c \in ChatIds, u \in 1..2, p \in 1..2}

InitClient ==
  /\ messagesByChat = Empty
  /\ pushed = <<>>

IdleClient ==
  /\ messagesByChat = Empty
  /\ pushed = <<>>

\* Lines 45-64: bytes become a blob URL and are cleared; base64 is cleared.
StoreMedia(media) ==
  Assign(IF "byte" \in DOMAIN media THEN [blobUrl |-> <<"blob", media.byte>>] ELSE Empty,
         Restrict(media, DOMAIN media \ {"byte", "base64"}))

\* The message after the loop of lines 45-65 has run over its attachments.
StoreMessage(message) ==
  IF "media" \in DOMAIN message
    THEN [message EXCEPT !.media = [k \in 1..Len(message.media) |-> StoreMedia(message.media[k])]]
    ELSE message

\* Line 67: the key of the chat's Map.
StoreKey(message) == message.platformMessageId

\* Lines 18-20 of useMessageChatMap(chatId): messagesByChat after the call.
\* A chat that has no Map is given an empty one.
messagesByChatAfter(store, chatId) ==
  IF chatId \in DOMAIN store THEN store
  ELSE Assign([c \in {chatId} |-> Empty], store)

\* Line 22 of useMessageChatMap(chatId): the Map the call returns.
useMessageChatMap(store, chatId) == messagesByChatAfter(store, chatId)[chatId]

\* Lines 17-23: useMessageChatMap(chatId) is called, by a view or by any
\* other user of the store.
UseMessageChatMap ==
  /\ \E chatId \in ChatIds :
       messagesByChat' = messagesByChatAfter(messagesByChat, chatId)
  /\ UNCHANGED pushed
  /\ UNCHANGED <<pipeVars, mediaVars, stickers, stickerVars, fetchVars, viewVars>>

\* Lines 26-67 for one message: chatMap.set(key, message).
PushOne(store, message) ==
  Assign([c \in {message.chatId} |->
            Assign([k \in {StoreKey(message)} |-> StoreMessage(message)],
                   useMessageChatMap(store, message.chatId))],
         store)

\* messages.forEach(...)
RECURSIVE PushAll(_, _)
PushAll(store, batch) ==
  IF batch = <<>> THEN store
  ELSE PushAll(PushOne(store, Head(batch)), Tail(batch))

\* Lines 25-71: pushMessages(messages).
PushMessages ==
  /\ Len(pushed) < MaxPushed
  /\ \E batch \in SeqsUpTo(PushedMessages, MaxPushed - Len(pushed)) \ {<<>>} :
       /\ messagesByChat' = PushAll(messagesByChat, batch)
       /\ pushed' = pushed \o batch
  /\ UNCHANGED <<pipeVars, mediaVars, stickers, stickerVars, fetchVars, viewVars>>

\* ------------------------------- chat view and fetchMessagesWithDatabase
\* messageLimit = ref(50)
messageLimit == 50

\* y.value < 100
NearTop == 100

\* Scroll positions: two within NearTop of the top, one farther down.
ScrollYs == {0, NearTop - 1, NearTop}

\* How many messages the database may answer with, around the limit.
DbCounts(limit) == {0, 1, limit - 1, limit, limit + 1}

\* route.params.id: the chat the view shows.
ViewChat == "c1"

\* The p-th message of the view's chat.
ViewMessage(p) ==
  [chatId |-> ViewChat, uuid |-> p, platformMessageId |-> p, content |-> "a"]

\* Lines 19-24 read through .length: the number of entries of the chat's Map.
chatLength == Cardinality(DOMAIN useMessageChatMap(messagesByChat, ViewChat))

\* What may stand in the input box: nothing, a blank, a text.
Inputs == {"", " ", "hi"}

\* messageInput.value.trim()
Trim(text) == IF text = " " THEN "" ELSE text

\* The store when the view is created: untouched, or with a Map for the
\* chat that holds the messages pushed so far.
InitView ==
  /\ debugMode \in BOOLEAN
  /\ \E n \in 0..MaxChatLen :
       /\ pushed = [p \in 1..n |-> ViewMessage(p)]
       /\ messagesByChat \in
            IF n = 0 THEN {Empty, messagesByChatAfter(Empty, ViewChat)}
            ELSE {PushAll(Empty, pushed)}
  /\ messageInput = ""
  /\ y \in ScrollYs
  /\ isLoadingMessages = FALSE
  /\ viewPc = "unmounted"
  /\ loads = <<>>
  /\ sent = <<>>

IdleView ==
  /\ debugMode = FALSE
  /\ messageInput = ""
  /\ y = 0
  /\ isLoadingMessages = FALSE
  /\ viewPc = "none"
  /\ loads = <<>>
  /\ sent = <<>>

\* websocketStore.sendEvent(topic, { chatId, pagination }) by call number load.
SendEvent(topic, pagination, load) ==
  [topic |-> topic, pagination |-> pagination, load |-> load]

\* dbMessages of line 76, the array line 88 reads: the array of line 80 is
\* another binding, scoped to the block of lines 78-85.
OuterDbMessages == <<>>

\* Lines 87-94: when messages are still missing, the offset is advanced by
\* dbMessages.length and 'message:fetch' is sent.
FetchRest(pagination, restMessageLength, load) ==
  IF restMessageLength > 0
    THEN <<SendEvent("message:fetch",
                     [pagination EXCEPT !.offset = @ + Len(OuterDbMessages)], load)>>
    ELSE <<>>

\* Lines 73-79, up to the await, and lines 87-94 in debug mode: the body
\* handed to toast.promise starts at once; fetchMessagesWithDatabase awaits
\* nothing and returns.
StartLoad(pagination, by) ==
  LET load == Len(loads) + 1
  IN IF debugMode
       THEN /\ loads' = Append(loads, [pagination |-> pagination, by |-> by,
                                        state |-> "done"])
            /\ sent' = sent \o FetchRest(pagination, pagination.limit, load)
       ELSE /\ loads' = Append(loads, [pagination |-> pagination, by |-> by,
                                        state |-> "db"])
            /\ sent' = Append(sent, SendEvent("storage:fetch:messages", pagination, load))

\* Lines 19-20: the view reads chatMessages, and with it calls
\* useMessageChatMap for its chat.
ReadChatMessages ==
  messagesByChat' = messagesByChatAfter(messagesByChat, ViewChat)

\* Lines 138-144: mounted with an empty chat, the view starts the first load.
MountEmpty ==
  /\ viewPc = "unmounted"
  /\ chatLength = 0
  /\ ReadChatMessages
  /\ isLoadingMessages' = TRUE
  /\ StartLoad([offset |-> 0, limit |-> messageLimit], "mount")
  /\ viewPc' = "mountAwait"
  /\ UNCHANGED <<debugMode, messageInput, y, pushed>>
  /\ UNCHANGED <<pipeVars, mediaVars, stickers, stickerVars, fetchVars>>

\* Line 139: mounted with messages in the chat, the view loads nothing.
MountLoaded ==
  /\ viewPc = "unmounted"
  /\ chatLength > 0
  /\ ReadChatMessages
  /\ viewPc' = "idle"
  /\ UNCHANGED <<debugMode, messageInput, y, isLoadingMessages, loads, sent, pushed>>
  /\ UNCHANGED <<pipeVars, mediaVars, stickers, stickerVars, fetchVars>>

\* Line 84: the condition of the scroll watcher.
ShouldLoad(top) == top < NearTop /\ ~isLoadingMessages /\ chatLength > 0

\* Lines 82-94: the list is scrolled; near the top, with no load flagged and
\* a chat that is not empty, the watcher sets the flag and starts a load.
Scroll ==
  /\ viewPc = "idle"
  /\ \E top \in ScrollYs \ {y} :
       /\ y' = top
       /\ IF ShouldLoad(top) /\ Len(loads) < MaxLoads
            THEN /\ isLoadingMessages' = TRUE
                 /\ StartLoad([offset |-> chatLength, limit |-> messageLimit], "scroll")
                 /\ viewPc' = "scrollAwait"
            ELSE /\ ~ShouldLoad(top)
                 /\ UNCHANGED <<isLoadingMessages, loads, sent, viewPc>>
  /\ UNCHANGED <<debugMode, messageInput, clientVars>>
  /\ UNCHANGED <<pipeVars, mediaVars, stickers, stickerVars, fetchVars>>

\* Lines 96 and 145: the await of fetchMessagesWithDatabase resumes, in a
\* microtask, before any other event is handled; the flag is cleared.
AwaitResumes ==
  /\ viewPc \in {"mountAwait", "scrollAwait"}
  /\ isLoadingMessages' = FALSE
  /\ viewPc' = "idle"
  /\ UNCHANGED <<debugMode, messageInput, y, loads, sent, clientVars>>
  /\ UNCHANGED <<pipeVars, mediaVars, stickers, stickerVars, fetchVars>>

\* Lines 80-94: 'storage:messages' answers a waiting call with k messages.
DatabaseAnswers ==
  /\ viewPc = "idle"
  /\ \E load \in 1..Len(loads) :
       /\ loads[load].state = "db"
       /\ \E k \in DbCounts(loads[load].pagination.limit) :
            /\ loads' = [loads EXCEPT ![load] =
                           [pagination |-> @.pagination, by |-> @.by,
                            state |-> "done", k |-> k]]
            /\ sent' = sent \o FetchRest(loads[load].pagination,
                                         loads[load].pagination.limit - k, load)
  /\ UNCHANGED <<debugMode, messageInput, y, isLoadingMessages, viewPc, clientVars>>
  /\ UNCHANGED <<pipeVars, mediaVars, stickers, stickerVars, fetchVars>>

\* A message arrives in the chat of the view: pushMessages([message]).
MessageArrives ==
  /\ viewPc = "idle"
  /\ chatLength < MaxChatLen
  /\ messagesByChat' = PushAll(messagesByChat, <<ViewMessage(chatLength + 1)>>)
  /\ pushed' = Append(pushed, ViewMessage(chatLength + 1))
  /\ UNCHANGED <<debugMode, messageInput, y, isLoadingMessages, viewPc, loads, sent>>
  /\ UNCHANGED <<pipeVars, mediaVars, stickers, stickerVars, fetchVars>>

\* v-model="messageInput": the text of the input box is edited.
TypeInput ==
  /\ viewPc = "idle"
  /\ \E text \in Inputs \ {messageInput} : messageInput' = text
  /\ UNCHANGED <<debugMode, y, isLoadingMessages, viewPc, loads, sent, clientVars>>
  /\ UNCHANGED <<pipeVars, mediaVars, stickers, stickerVars, fetchVars>>

\* The 'message:send' events sent so far.
Sends == {e \in 1..Len(sent) : sent[e].topic = "message:send"}

\* Lines 155-166: sendMessage, on a click of Send or on Enter.  A blank
\* input sends nothing; else 'message:send' is sent and the input cleared.
SendMessage ==
  /\ viewPc = "idle"
  /\ IF Trim(messageInput) = ""
       THEN UNCHANGED <<sent, messageInput>>
       ELSE /\ Cardinality(Sends) < MaxSends
            /\ sent' = Append(sent, [topic |-> "message:send", chatId |-> ViewChat,
                                      content |-> messageInput])
            /\ messageInput' = ""
  /\ UNCHANGED <<debugMode, y, isLoadingMessages, viewPc, loads, clientVars>>
  /\ UNCHANGED <<pipeVars, mediaVars, stickers, stickerVars, fetchVars>>

\* ------------------------------------------------------------------ claims
SameUuids(a, b) ==
  /\ Len(a) = Len(b)
  /\ \A k \in 1..Len(a) : a[k].uuid = b[k].uuid

\* The latest resolver returned normally with a result that was merged.
MergeHappened ==
  /\ lastMerge.done
  /\ ~lastMerge.threw
  /\ Len(lastMerge.result) > 0

\* The batch positions that the latest result has an entry for.
Matched ==
  {k \in 1..Len(lastMerge.input) : HasUuid(lastMerge.result, lastMerge.input[k].uuid)}

ResolvedFor(k) == resultByUuid(lastMerge.result, lastMerge.input[k].uuid)

\* C1: after every resolver's merge, whatever the resolver returned or
\* however it failed, the working batch has the length of the converted batch
\* and the same uuid at every position.
C1_MergeKeepsShape ==
  /\ pc # "convert" => SameUuids(emitMessages, coreMessages)
  /\ \A i \in 1..Len(outputs) : SameUuids(outputs[i], coreMessages)
  /\ lastMerge.done => SameUuids(lastMerge.output, lastMerge.input)

\* C1 witness: a batch of two was merged with a result that lists the two
\* uuids in reverse order, and with a result shorter than the batch.
C1_Witness ==
  /\ MergeHappened
  /\ Len(lastMerge.input) = 2
  /\ Len(lastMerge.result) = 2
  /\ lastMerge.result[1].uuid = 2
  /\ lastMerge.result[2].uuid = 1
  /\ lastMerge.output # lastMerge.input

\* C2: for a message with a matching result entry, every field the entry
\* defines has the entry's value after the merge, and every field it leaves
\* undefined keeps the batch's value.
C2_ResultOverrides ==
  MergeHappened =>
    \A k \in Matched :
      /\ \A f \in DOMAIN ResolvedFor(k) :
           lastMerge.output[k][f] = ResolvedFor(k)[f]
      /\ \A f \in DOMAIN lastMerge.input[k] \ DOMAIN ResolvedFor(k) :
           lastMerge.output[k][f] = lastMerge.input[k][f]

\* C3: when the matching result entry defines media, the merged message's
\* media is exactly the entry's array.
C3_ArrayReplaced ==
  MergeHappened =>
    \A k \in Matched :
      "media" \in DOMAIN ResolvedFor(k) =>
        lastMerge.output[k].media = ResolvedFor(k).media

\* C4: a resolver that failed left the working batch as it was handed to it,
\* the resolver after it was handed that same batch, and a call that reached
\* its end invoked every resolver of the registry.
C4_FailureIsolated ==
  /\ \A i \in failed :
       /\ outputs[i] = inputs[i]
       /\ i < Len(inputs) => inputs[i + 1] = inputs[i]
  /\ (lastMerge.done /\ lastMerge.threw) =>
       (lastMerge.output = lastMerge.input /\ emitMessages = lastMerge.input)
  /\ pc = "done" => Len(inputs) = NumResolvers

\* C4 witness: the first resolver failed on a non-empty batch and the second
\* one was invoked after it.
C4_Witness ==
  /\ 1 \in failed
  /\ Len(inputs) = 2
  /\ inputs[1] # <<>>
  /\ pc = "done"

\* C9: once the session's abort has been received, no resolver that has not
\* started yet is invoked.
C9_NoResolverAfterAbort == [][aborted => idx' = idx]_vars

\* C10: resolvers run one after another in registry order; each is handed
\* the batch as merged after all the resolvers before it, the first one the
\* converted batch, and none starts before the previous one's merge is done.
C10_Sequential ==
  /\ Len(inputs) = idx
  /\ Len(outputs) = IF pc \in Modes THEN idx - 1 ELSE idx
  /\ idx >= 1 => inputs[1] = coreMessages
  /\ \A i \in 2..Len(inputs) : inputs[i] = outputs[i - 1]
  /\ pc \in Modes => registry[idx] = pc

\* C10 witness: the second resolver was handed a batch the first one changed.
C10_Witness ==
  /\ Len(inputs) = 2
  /\ inputs[2] # inputs[1]
  /\ inputs[2] = outputs[1]


\* The message of the batch that a yielded message came from.
YieldedUuids == {mResult[i].uuid : i \in 1..Len(mResult)}

\* C5: a failure while the stream resolves one message does not stop the
\* messages after it: when the stream is over, every message after the one
\* that failed has been yielded and emitted.
C5_LaterMessagesEmitted ==
  mpc = "caught" =>
    \A j \in (mpos + 1)..Len(mIn) :
      mIn[j].uuid \in YieldedUuids /\ mEmitted >= j - 1

\* Attachment k of message u was downloaded and the download failed.
DownloadFailed(u, k) ==
  <<u, k>> \in DOMAIN outcome /\ outcome[<<u, k>>] \in {"none", "throw"}

\* C6: when the download of an attachment fails, by throwing or by
\* returning no bytes, no error reaches the resolver, the message is emitted
\* with its other attachments populated, and the failed attachment has
\* neither bytes nor path.
C6_AttachmentFailureTolerated ==
  /\ mpc # "caught"
  /\ \A i \in 1..Len(mResult) :
       LET message == mResult[i]
       IN "media" \in DOMAIN message =>
            \A k \in 1..Len(message.media) :
              /\ DownloadFailed(message.uuid, k) =>
                   /\ "byte" \notin DOMAIN message.media[k]
                   /\ "path" \notin DOMAIN message.media[k]
              /\ (<<message.uuid, k>> \in DOMAIN outcome
                  /\ outcome[<<message.uuid, k>>] = "buffer") =>
                   "byte" \in DOMAIN message.media[k]

CallsFor(f) ==
  {c \in DOMAIN calls : calls[c].pc # "idle" /\ calls[c].sticker.sticker_id = f}

RowsFor(f) == {k \in 1..Len(stickers) : stickers[k].file_id = f}

\* C7: however the recordSticker calls for one file id interleave, once they
\* have all returned the table holds exactly one row for that file id.
C7_OneEntryPerFileId ==
  \A f \in FileIds :
    (CallsFor(f) # {} /\ CallsFor(f) \subseteq Returned) =>
      Cardinality(RowsFor(f)) = 1

\* The calls for f ran one after another: of any two, one had returned
\* before the other was made.
InSequence(f) ==
  \A c, d \in CallsFor(f) : c # d => (c \in finished[d] \/ d \in finished[c])

FirstCall(f) == CHOOSE c \in CallsFor(f) : finished[c] \cap CallsFor(f) = {}

\* C8: a recordSticker call made after another call for the same file id
\* has returned inserts nothing; after calls made in sequence the table holds
\* one row for the file id, the row of the first call's bytes, path and emoji.
C8_SequentialIdempotent ==
  \A f \in FileIds :
    /\ \A c \in CallsFor(f) :
         finished[c] \cap CallsFor(f) # {} =>
           /\ calls[c].pc # "insert"
           /\ \A k \in 1..Len(insertedBy) : insertedBy[k] # c
    /\ (CallsFor(f) # {} /\ InSequence(f) /\ CallsFor(f) \subseteq Returned) =>
         /\ Cardinality(RowsFor(f)) = 1
         /\ \A k \in RowsFor(f) :
              /\ stickers[k] = StickerRow(calls[FirstCall(f)].sticker)
              /\ insertedBy[k] = FirstCall(f)

\* C8 witness: two calls for one file id, the second made after the first
\* returned and with other bytes, path and emoji, have both returned.
C8_Witness ==
  /\ DOMAIN calls = Calls
  /\ \E c, d \in Calls :
       /\ c \in finished[d]
       /\ calls[d].pc = "done"
       /\ calls[c].sticker.sticker_id = calls[d].sticker.sticker_id
       /\ "path" \notin DOMAIN calls[c].sticker
       /\ "path" \in DOMAIN calls[d].sticker
       /\ Len(stickers) = 1
       /\ stickers[1] = StickerRow(calls[c].sticker)

\* A step of processMessages itself (everything but the abort command).
PipelineStep ==
  \/ Convert
  \/ NextResolver
  \/ RunReturns
  \/ RunFails
  \/ StreamYields
  \/ StreamEnds
  \/ StreamThrows
  \/ Record

\* C11: a call emits 'storage:record:messages' only at its end, once, as its
\* last event, after every resolver of the registry has run, failed or not,
\* and the event carries the final merged batch; the converted batch is on
\* 'message:data' before the first resolver is invoked; and as long as the
\* call has not ended, processMessages has a step to take.
C11_RecordOnceAtEnd ==
  /\ pc # "done" => emitted["storage:record:messages"] = 0 /\ ENABLED PipelineStep
  /\ pc = "done" =>
       /\ emitted["storage:record:messages"] = 1
       /\ lastEvent = [topic |-> "storage:record:messages", messages |-> emitMessages]
       /\ idx = NumResolvers
       /\ Len(outputs) = NumResolvers
       /\ emitMessages = outputs[NumResolvers]
  /\ pc # "convert" => emitted["message:data"] >= 1
  /\ (pc = "loop" /\ idx = 0) =>
       lastEvent = [topic |-> "message:data", messages |-> coreMessages]

\* C11 witness: a call has ended in which a resolver failed, another one
\* changed the batch, and a stream emitted messages in between.
C11_Witness ==
  /\ pc = "done"
  /\ failed # {}
  /\ emitMessages # coreMessages
  /\ emitted["message:data"] > 1
  /\ lastEvent.messages = emitMessages

\* The positions of a batch that hold the message of uuid u.
PositionsOf(batch, u) == {k \in 1..Len(batch) : batch[k].uuid = u}

\* C12: a message a stream-mode resolver produces is emitted on
\* 'message:data', alone and at once, by the step that produces it, one
\* event per produced message; and the final batch emission carries the
\* message of that uuid once more (a message is identified by its uuid, and
\* the uuid is one of the batch the resolver was handed).
C12_EagerThenFinal ==
  /\ []((pc = "stream" /\ Len(result) > 0) =>
          lastEvent = [topic |-> "message:data", messages |-> <<result[Len(result)]>>])
  /\ [](pc = "done" =>
          \A u \in produced :
            PositionsOf(coreMessages, u) # {} =>
              /\ lastEvent.topic = "storage:record:messages"
              /\ Cardinality(PositionsOf(lastEvent.messages, u)) = 1)
  /\ [][(pc = "stream" /\ pc' = "stream" /\ (result' # result \/ emitted' # emitted)) =>
          /\ result' = Append(result, lastEvent'.messages[1])
          /\ Len(lastEvent'.messages) = 1
          /\ emitted'["message:data"] = emitted["message:data"] + 1
          /\ result'[Len(result')].uuid \in produced']_vars
  /\ [][(pc = "stream" /\ pc' # "stream") => emitted' = emitted]_vars

\* C12 witness: a stream produced two messages of the batch, each emitted as
\* it was produced, and the call has ended with the final batch emitted.
C12_Witness ==
  /\ pc = "done"
  /\ Cardinality(produced) = 2
  /\ \A u \in produced : PositionsOf(coreMessages, u) # {}
  /\ emitted["message:data"] >= 3
  /\ lastEvent.messages # coreMessages

\* The uuids of a batch.
UuidsOf(batch) == {batch[k].uuid : k \in 1..Len(batch)}

\* C13: every uuid of the working batch, of every resolver's input and of
\* the final emitted batch was assigned at conversion, each to one message;
\* a result entry whose uuid is not in the resolver's input adds nothing to
\* the batch, and a merge leaves the uuid at every position as it was.
C13_NoForeignUuid ==
  /\ UuidsOf(emitMessages) \subseteq UuidsOf(coreMessages)
  /\ \A u \in UuidsOf(emitMessages) : Cardinality(PositionsOf(emitMessages, u)) = 1
  /\ \A i \in 1..Len(inputs) : UuidsOf(inputs[i]) \subseteq UuidsOf(coreMessages)
  /\ lastEvent.topic = "storage:record:messages" =>
       UuidsOf(lastEvent.messages) = UuidsOf(coreMessages)
  /\ lastMerge.done =>
       /\ UuidsOf(lastMerge.output) = UuidsOf(lastMerge.input)
       /\ \A k \in 1..Len(lastMerge.input) :
            /\ k \in DOMAIN lastMerge.output
            /\ lastMerge.output[k].uuid = lastMerge.input[k].uuid

\* C13 witness: a result with an entry of the batch and an entry of a uuid
\* that is not in the batch was merged, and the call has ended.
C13_Witness ==
  /\ pc = "done"
  /\ MergeHappened
  /\ lastMerge.input # <<>>
  /\ lastMerge.output # lastMerge.input
  /\ \E j \in 1..Len(lastMerge.result) :
       lastMerge.result[j].uuid \notin UuidsOf(lastMerge.input)

\* The fetchMessages call is over.
FetchEnded == fpc \in {"done", "converted"}

\* C14: a fetchMessages call that fails as a whole ends with a typed error
\* and has yielded nothing: NotAuthorized, without a getMessages request,
\* when the session is not authorized; an error value, and no exception,
\* when getMessages throws.
C14_WholeCallFailureTyped ==
  /\ (FetchEnded /\ fAuth = "no") =>
       /\ fReturn = ReturnedErr("NotAuthorized")
       /\ ~fRequested
       /\ fYielded = <<>>
  /\ (FetchEnded /\ fAuth = "yes" /\ fResponse.throws) =>
       /\ fReturn.kind = "Err"
       /\ fYielded = <<>>

Live(message) == message.className # "MessageEmpty"

Converts(message) == message.ok

\* The ids of a sequence of messages, in order.
IdsOf(batch) == [k \in 1..Len(batch) |-> batch[k].id]

\* The page getMessages returned, when it returned one with messages.
PageReturned ==
  fRequested /\ ~fResponse.throws /\ Len(fResponse.page) > 0

\* C15: for a non-empty page, what fetchMessages has yielded is the
\* non-tombstone messages of the part of the page it has passed, each once
\* and in the page's order, and at its end those of the whole page;
\* conversion keeps the yielded messages that convert, in the same order,
\* each with a uuid of its own.
C15_YieldsLiveInOrder ==
  /\ (PageReturned /\ fpc # "request") =>
       fYielded = SelectSeq(SubSeq(fResponse.page, 1, fpos), Live)
  /\ (PageReturned /\ FetchEnded) =>
       /\ fYielded = SelectSeq(fResponse.page, Live)
       /\ fReturn = ReturnedUndefined
  /\ fpc = "converted" =>
       /\ IdsOf(fConverted) = IdsOf(SelectSeq(fYielded, Converts))
       /\ \A j, k \in 1..Len(fConverted) : j # k => fConverted[j].uuid # fConverted[k].uuid

\* C15 witness: a page of three with a tombstone in the middle has yielded
\* its two other messages, and both were converted.
C15_Witness ==
  /\ fpc = "converted"
  /\ PageReturned
  /\ Len(fResponse.page) = 3
  /\ fResponse.page[2].className = "MessageEmpty"
  /\ fYielded = <<fResponse.page[1], fResponse.page[3]>>
  /\ IdsOf(fConverted) = <<1, 3>>

\* The attachments the resolver has settled: <<message, attachment>>.
Settled == DOMAIN outcome

\* downloadMedia was called for attachment p.
Downloaded(p) == outcome[p] \in {"buffer", "none", "throw"}

\* Attachment p is a sticker, and the stickers table held a row for its file
\* id when the resolver looked the id up.
CachedSticker(p) ==
  /\ mIn[p[1]].media[p[2]].type = "sticker"
  /\ p \in found

\* The first row of the table for the file id of sticker attachment p.
RowOf(p) ==
  stickers[CHOOSE r \in 1..Len(stickers) :
    /\ stickers[r].file_id = mIn[p[1]].media[p[2]].apiMedia.document.id
    /\ \A q \in 1..(r - 1) :
         stickers[q].file_id # mIn[p[1]].media[p[2]].apiMedia.document.id]

\* C16: a sticker attachment whose file id is in the stickers table when
\* the resolver looks it up is resolved from the table: downloadMedia is
\* never called for it, no file is written for it, and the attachment
\* emitted carries the row's bytes.
C16_CacheHitSkipsDownload ==
  /\ \A p \in found : p \in Settled /\ outcome[p] = "hit"
  /\ \A p \in Settled :
       CachedSticker(p) =>
         /\ ~Downloaded(p)
         /\ \A w \in writes : w.by # p
         /\ p[1] <= Len(mResult) =>
              LET media == mResult[p[1]].media[p[2]]
              IN IF "sticker_bytes" \in DOMAIN RowOf(p)
                   THEN "byte" \in DOMAIN media /\ media.byte = RowOf(p).sticker_bytes
                   ELSE "byte" \notin DOMAIN media

\* C16 witness: a message with two stickers of one file id was emitted.
\* The row was inserted while the resolver ran: one sticker had made its
\* lookups by then and was downloaded, the other found the row and carries
\* its bytes.
C16_Witness ==
  \E p, d \in Settled :
    /\ p[1] = d[1]
    /\ p[1] <= Len(mResult)
    /\ CachedSticker(p)
    /\ outcome[p] = "hit"
    /\ "byte" \in DOMAIN mResult[p[1]].media[p[2]]
    /\ mResult[p[1]].media[p[2]].byte = <<"Buffer", LateSticker.byte>>
    /\ mIn[d[1]].media[d[2]].type = "sticker"
    /\ outcome[d] = "buffer"
    /\ d \notin found

\* C17: a sticker attachment whose file id is not in the table and whose
\* download returned bytes has a row in the table afterwards.
C17_MissWritesThrough ==
  \A p \in Settled :
    (mIn[p[1]].media[p[2]].type = "sticker" /\ outcome[p] = "buffer") =>
      findStickerByFileId(stickers, mIn[p[1]].media[p[2]].apiMedia.document.id) # <<>>

\* C18: no two attachments are written to the same path.
C18_PathsDistinct ==
  \A v, w \in writes : v.by # w.by => v.path # w.path

\* The fields of a message other than its attachments.
Envelope(message) == Restrict(message, DOMAIN message \ {"media"})

\* C20: the messages emitted are the input messages in input order, at most
\* one per input message and, once the stream is over, however it ended,
\* exactly one per input message, each with its uuid and other fields as
\* they came in; a message without attachments is emitted as it is; a
\* message with attachments is emitted only when each of them has resolved,
\* with as many attachments in the same order, and not while one of them is
\* pending.
C20_FanInInOrder ==
  /\ Len(mResult) <= mpos
  /\ mEmitted = Len(mResult)
  /\ mpc \in {"done", "caught"} => Len(mResult) = Len(mIn)
  /\ (mpc = "fan" /\ \E k \in DOMAIN fetched : fetched[k].state = "pending") =>
       Len(mResult) = mpos - 1
  /\ \A i \in 1..Len(mResult) :
       /\ Envelope(mResult[i]) = Envelope(mIn[i])
       /\ DOMAIN mResult[i] = DOMAIN mIn[i]
       /\ ("media" \notin DOMAIN mIn[i] \/ mIn[i].media = <<>>) => mResult[i] = mIn[i]
       /\ "media" \in DOMAIN mIn[i] =>
            /\ Len(mResult[i].media) = Len(mIn[i].media)
            /\ \A k \in 1..Len(mIn[i].media) :
                 /\ <<i, k>> \in Settled
                 /\ outcome[<<i, k>>] # "throw"
                 /\ mResult[i].media[k].apiMedia = mIn[i].media[k].apiMedia
                 /\ mResult[i].media[k].messageUUID = mIn[i].uuid

\* The pushes, by position in the history, of uuid u for a chat.
PushesOf(chat, u) ==
  {i \in 1..Len(pushed) : pushed[i].chatId = chat /\ pushed[i].uuid = u}

\* The uuids pushed for a chat.
PushedUuids(chat) ==
  {pushed[i].uuid : i \in {j \in 1..Len(pushed) : pushed[j].chatId = chat}}

\* C19: after any sequence of pushMessages calls a chat's map holds exactly
\* one entry for each uuid pushed for the chat, and the entry is the message
\* of that uuid that was pushed last.
C19_IdempotentByUuid ==
  \A chat \in ChatIds :
    LET map == useMessageChatMap(messagesByChat, chat)
    IN /\ Cardinality(DOMAIN map) = Cardinality(PushedUuids(chat))
       /\ \A u \in PushedUuids(chat) :
            /\ Cardinality({k \in DOMAIN map : map[k].uuid = u}) = 1
            /\ \E k \in DOMAIN map :
                 map[k] = StoreMessage(pushed[Max(PushesOf(chat, u))])

\* C21: no attachment of an emitted message carries a base64 value,
\* whether it was resolved from the stickers table or by a download.
C21_NoBase64Emitted ==
  \A i \in 1..Len(mResult) :
    ("media" \in DOMAIN mIn[i] /\ Len(mIn[i].media) > 0) =>
      \A k \in 1..Len(mResult[i].media) :
        "base64" \notin DOMAIN mResult[i].media[k]

\* The 'message:fetch' events that call number load has sent.
FetchesOf(load) ==
  {e \in 1..Len(sent) : sent[e].topic = "message:fetch" /\ sent[e].load = load}

\* C22: with debug mode off, a call the database answered with k messages
\* sends no 'message:fetch' when k >= limit, and when k < limit exactly one,
\* with the caller's limit and the caller's offset plus k.
C22_FetchContinuesAfterDb ==
  \A load \in 1..Len(loads) :
    (~debugMode /\ loads[load].state = "done") =>
      IF loads[load].k >= loads[load].pagination.limit
        THEN FetchesOf(load) = {}
        ELSE /\ Cardinality(FetchesOf(load)) = 1
             /\ \A e \in FetchesOf(load) :
                  /\ sent[e].pagination.limit = loads[load].pagination.limit
                  /\ sent[e].pagination.offset =
                       loads[load].pagination.offset + loads[load].k

\* The loads a scroll started whose database request has not been answered.
Outstanding ==
  {load \in 1..Len(loads) : loads[load].by = "scroll" /\ loads[load].state = "db"}

\* C23: at most one load started by a scroll is outstanding at a time, and
\* isLoadingMessages is true for as long as the database request of such a
\* load is outstanding.
C23_OneLoadOutstanding ==
  /\ Cardinality(Outstanding) <= 1
  /\ Outstanding # {} => isLoadingMessages

Init == InitPipe /\ IdleMedia /\ stickers = <<>> /\ IdleSticker /\ IdleFetch /\ IdleClient /\ IdleView

Next ==
  \/ Convert
  \/ NextResolver
  \/ RunReturns
  \/ RunFails
  \/ StreamYields
  \/ StreamEnds
  \/ StreamThrows
  \/ Record
  \/ Abort

Spec == Init /\ [][Next]_vars

InitMediaSpec ==
  InitMedia /\ InitMediaWriter /\ IdlePipe /\ IdleFetch /\ IdleClient /\ IdleView

NextMedia ==
  \/ MediaPassThrough
  \/ MediaFanOut
  \/ ResolveFromSticker
  \/ LookupMisses
  \/ DownloadReturnsBuffer
  \/ DownloadReturnsNothing
  \/ DownloadThrows
  \/ MediaFanIn
  \/ MediaStreamEnds
  \/ FindExisting
  \/ InsertSticker

SpecMedia == InitMediaSpec /\ [][NextMedia]_vars

InitStickerSpec ==
  InitSticker /\ stickers = <<>> /\ IdlePipe /\ IdleMedia /\ IdleFetch /\ IdleClient /\ IdleView

NextSticker ==
  \/ CallRecordSticker
  \/ FindExisting
  \/ InsertSticker

SpecSticker == InitStickerSpec /\ [][NextSticker]_vars

InitFetchSpec ==
  InitFetch /\ IdlePipe /\ IdleMedia /\ stickers = <<>> /\ IdleSticker /\ IdleClient /\ IdleView

NextFetch ==
  \/ FetchNotAuthorized
  \/ FetchAuthThrows
  \/ FetchAuthorized
  \/ GetMessagesThrows
  \/ GetMessagesEmpty
  \/ GetMessagesPage
  \/ FetchSkipEmpty
  \/ FetchYield
  \/ FetchEnd
  \/ ConvertFetched

SpecFetch == InitFetchSpec /\ [][NextFetch]_vars

InitClientSpec ==
  InitClient /\ IdlePipe /\ IdleMedia /\ stickers = <<>> /\ IdleSticker /\ IdleFetch /\ IdleView

NextClient ==
  \/ PushMessages
  \/ UseMessageChatMap

SpecClient == InitClientSpec /\ [][NextClient]_vars

InitViewSpec ==
  InitView /\ IdlePipe /\ IdleMedia /\ stickers = <<>> /\ IdleSticker /\ IdleFetch

NextView ==
  \/ MountEmpty
  \/ MountLoaded
  \/ Scroll
  \/ AwaitResumes
  \/ DatabaseAnswers
  \/ MessageArrives
  \/ TypeInput
  \/ SendMessage

SpecView == InitViewSpec /\ [][NextView]_vars

====
